---- MODULE Spec2Model ----
(***************************************************************************)
(* focus-org: scan org files, parse headings and their timestamps,         *)
(* classify every heading against "now" and pick one heading per slot of   *)
(* the status line.                                                         *)
(*                                                                         *)
(* Strings are sequences of one-character strings, so that find, split,    *)
(* trim_matches, starts_with and slicing are computed as the code computes *)
(* them.  A NaiveDateTime is the number of minutes since 1970-01-01 00:00. *)
(***************************************************************************)
EXTENDS Integers, Sequences, FiniteSets, TLC

VARIABLES
    files,      \* per worker: the org file it was spawned for
    now,        \* the instant Local::now() reads during the run
    wpc,        \* per worker: "spawned", "scanning", "tail", "done", "panicked"
    wline,      \* per worker: number of lines of its file already read
    rest,       \* per worker: the lines of the block being accumulated
    chan,       \* the mpsc channel: Headings sent and not yet received
    all,        \* main: Vec<Heading> of everything received
    mpc,        \* main: "recv", "classify", "headline", "event", "print", "exit", "panicked"
    ci,         \* main: number of Headings of `all` already classified
    clocked,    \* main: indices into `all` (the &Heading references)
    action,
    event,
    overdue,
    actionstr,  \* main: what the headline slot holds
    eventstr,   \* main: what the event slot holds
    stdout,     \* what has been printed
    arg,        \* argument of the function under test (function specifications)
    ret,        \* its result
    called      \* whether it has been applied

vars == <<files, now, wpc, wline, rest, chan, all, mpc, ci, clocked, action,
          event, overdue, actionstr, eventstr, stdout, arg, ret, called>>

(***************************************************************************)
(* str primitives                                                          *)
(***************************************************************************)

\* str::starts_with
StartsWith(s, p) == Len(s) >= Len(p) /\ SubSeq(s, 1, Len(p)) = p

\* str::ends_with
EndsWith(s, p) == Len(s) >= Len(p) /\ SubSeq(s, Len(s) - Len(p) + 1, Len(s)) = p

\* &s[from..] with a 0-based byte offset
SliceFrom(s, from) == SubSeq(s, from + 1, Len(s))

\* the first of a set of offsets, -1 (None) when there is none
FirstOf(hits) ==
    IF hits = {} THEN -1 ELSE CHOOSE i \in hits : \A j \in hits : i <= j

\* str::find(&str): 0-based offset of the first occurrence, -1 for None
Find(s, p) ==
    FirstOf({i \in 0..(Len(s) - Len(p)) : SubSeq(s, i + 1, i + Len(p)) = p})

\* str::find(&[char]): 0-based offset of the first char of the set, -1 for None
FindAny(s, cs) == FirstOf({i \in 0..(Len(s) - 1) : s[i + 1] \in cs})

\* str::contains
Contains(s, p) == Find(s, p) >= 0

\* str::split(char).collect(): never empty, "" splits into [""]
RECURSIVE Split(_, _)
SplitAt(s, c, i) ==
    IF i < 0 THEN <<s>>
    ELSE <<SubSeq(s, 1, i)>> \o Split(SliceFrom(s, i + 1), c)

Split(s, c) == SplitAt(s, c, FindAny(s, {c}))

\* str::trim_matches(&[char])
RECURSIVE TrimStart(_, _)
TrimStart(s, cs) ==
    IF Len(s) > 0 /\ s[1] \in cs THEN TrimStart(Tail(s), cs) ELSE s

RECURSIVE TrimEnd(_, _)
TrimEnd(s, cs) ==
    IF Len(s) > 0 /\ s[Len(s)] \in cs THEN TrimEnd(SubSeq(s, 1, Len(s) - 1), cs) ELSE s

TrimMatches(s, cs) == TrimEnd(TrimStart(s, cs), cs)

\* [a, b].join(" ")
JoinSpace(a, b) == a \o <<" ">> \o b

(***************************************************************************)
(* chrono: calendar dates and format-string parsing                        *)
(***************************************************************************)

MinutesPerHour == 60
MinutesPerDay == 1440

DigitVal ==
    ("0" :> 0) @@ ("1" :> 1) @@ ("2" :> 2) @@ ("3" :> 3) @@ ("4" :> 4) @@
    ("5" :> 5) @@ ("6" :> 6) @@ ("7" :> 7) @@ ("8" :> 8) @@ ("9" :> 9)

IsDigit(c) == c \in DOMAIN DigitVal

RECURSIVE DecValue(_)
DecValue(s) ==
    IF Len(s) = 0 THEN 0
    ELSE 10 * DecValue(SubSeq(s, 1, Len(s) - 1)) + DigitVal[s[Len(s)]]

\* a decimal field of at most `width` digits; -1 when it is not one
ParseNum(s, width) ==
    IF Len(s) >= 1 /\ Len(s) <= width /\ (\A i \in 1..Len(s) : IsDigit(s[i]))
    THEN DecValue(s) ELSE -1

IsLeap(y) == (y % 4 = 0 /\ y % 100 # 0) \/ y % 400 = 0

DaysInMonth(y, m) ==
    IF m = 2 THEN (IF IsLeap(y) THEN 29 ELSE 28)
    ELSE IF m \in {4, 6, 9, 11} THEN 30 ELSE 31

\* days since 1970-01-01, the year starting in March: yy is the shifted year
\* (yy >= 0), mp the month counted from March
DaysOfShifted(yy, mp, d) ==
    (yy \div 400) * 146097
    + (yy % 400) * 365 + (yy % 400) \div 4 - (yy % 400) \div 100
    + (153 * mp + 2) \div 5 + d - 1
    - 719468

\* days since 1970-01-01 of a Gregorian date
DaysFromCivil(y, m, d) ==
    DaysOfShifted(IF m <= 2 THEN y - 1 ELSE y, IF m > 2 THEN m - 3 ELSE m + 9, d)

\* NaiveDateTime of a civil date and time of day
Minute(y, m, d, hh, mm) ==
    DaysFromCivil(y, m, d) * MinutesPerDay + hh * MinutesPerHour + mm

\* the date of parsed fields, -1 when they are out of range
CivilDate(y, m, d) ==
    IF y < 0 \/ m < 1 \/ m > 12 \/ d < 1 THEN -1
    ELSE IF d > DaysInMonth(y, m) THEN -1
    ELSE DaysFromCivil(y, m, d)

DateOfFields(p) ==
    IF Len(p) # 3 THEN -1
    ELSE CivilDate(ParseNum(p[1], 4), ParseNum(p[2], 2), ParseNum(p[3], 2))

\* NaiveDate::parse_from_str(s, "%Y-%m-%d"): days since the epoch, -1 for Err
ParseDate(s) == DateOfFields(Split(s, "-"))

ClockTime(hh, mm) ==
    IF hh < 0 \/ hh > 23 \/ mm < 0 \/ mm > 59 THEN -1
    ELSE hh * MinutesPerHour + mm

TimeOfFields(p) ==
    IF Len(p) # 2 THEN -1 ELSE ClockTime(ParseNum(p[1], 2), ParseNum(p[2], 2))

\* the "%H:%M" part: minute of the day, -1 for Err
ParseTime(s) == TimeOfFields(Split(s, ":"))

DateTimeOf(d, t) == IF d < 0 \/ t < 0 THEN -1 ELSE d * MinutesPerDay + t

DateTimeOfFields(p) ==
    IF Len(p) # 2 THEN -1 ELSE DateTimeOf(ParseDate(p[1]), ParseTime(p[2]))

\* NaiveDateTime::parse_from_str(s, "%Y-%m-%d %H:%M"): minutes, -1 for Err
ParseDateTime(s) == DateTimeOfFields(Split(s, " "))

(***************************************************************************)
(* Timestamp parser                                                        *)
(***************************************************************************)

\* Option<TimeRange>, with the panic of an unwrap() as a third outcome
SomeTR(s, e) == [tag |-> "Some", start |-> s, end |-> e]
NoneTR == [tag |-> "None", start |-> 0, end |-> 0]
PanicTR == [tag |-> "Panic", start |-> 0, end |-> 0]

Trimmable == {"[", "<", ">", "]"}
NoTimeMarks == {"+", "-", "."}

\* if there is no time specified: (with_time, with_time + Duration::days(1))
FullDay(start_date) ==
    IF start_date < 0 THEN PanicTR         \* parse_from_str(..).unwrap()
    ELSE SomeTR(start_date * MinutesPerDay,
                start_date * MinutesPerDay + MinutesPerDay)

\* point in time: (start_date, start_date)
PointInTime(start_date) ==
    IF start_date < 0 THEN PanicTR ELSE SomeTR(start_date, start_date)

\* YYYY-MM-DD Dow HH:MM-HH:MM: (start_date, end_date)
TimeSpan(start_date, end_date) ==
    IF start_date < 0 \/ end_date < 0 THEN PanicTR
    ELSE SomeTR(start_date, end_date)

\* TimedStamp with the end time of a range dropped; C7 does not hold of it
TimedStampNoEnd(date, time_split) ==
    PointInTime(ParseDateTime(JoinSpace(date, time_split[1])))

\* the stamp of a date and the '-'-split parts of its time token
TimedStamp(date, time_split) ==
    IF Len(time_split) = 1
    THEN PointInTime(ParseDateTime(JoinSpace(date, time_split[1])))
    ELSE TimeSpan(ParseDateTime(JoinSpace(date, time_split[1])),
                  ParseDateTime(JoinSpace(date, time_split[2])))

\* parse_date_str from base_splits on
StampOfSplits(base_splits) ==
    IF Len(base_splits) < 3 THEN FullDay(ParseDate(base_splits[1]))
    ELSE IF Len(base_splits[3]) = 0 THEN PanicTR    \* chars().nth(0).unwrap()
    ELSE IF base_splits[3][1] \in NoTimeMarks
    THEN FullDay(ParseDate(base_splits[1]))
    ELSE TimedStamp(base_splits[1], Split(base_splits[3], "-"))

\* fn parse_date_str(datestr) -> (NaiveDateTime, NaiveDateTime)
parse_date_str(datestr) ==
    StampOfSplits(Split(TrimMatches(datestr, Trimmable), " "))

s_DASHES == <<"-","-">>

\* Some(TimeRange { start: start, end: end }) of the two halves of a double date
DoubleDate(l, r) ==
    IF l.tag = "Panic" \/ r.tag = "Panic" THEN PanicTR
    ELSE SomeTR(l.start, r.start)

\* parse_timerange from the offset of "--" on
TimerangeAt(buf, beg) ==
    IF beg >= 0
    THEN DoubleDate(parse_date_str(SubSeq(buf, 1, beg)),
                    parse_date_str(SliceFrom(buf, beg + 2)))
    ELSE parse_date_str(buf)

\* fn parse_timerange(buf) -> Option<TimeRange>
parse_timerange(buf) == TimerangeAt(buf, Find(buf, s_DASHES))

ts_start == {"[", "<"}
ts_end == {">", "]"}

\* next_timerange from the offsets s of the opening and s + e of the closing char
TimerangeBetween(buf, s, e) ==
    IF e < 0 THEN NoneTR ELSE parse_timerange(SubSeq(buf, s + 1, s + e + 1))

TimerangeFrom(buf, s) ==
    IF s < 0 THEN NoneTR
    ELSE TimerangeBetween(buf, s, FindAny(SliceFrom(buf, s), ts_end))

\* fn next_timerange(buf) -> Option<TimeRange>
next_timerange(buf) == TimerangeFrom(buf, FindAny(buf, ts_start))

PrefixTimerangeAt(buf, prefix, c) ==
    IF c < 0 THEN NoneTR ELSE next_timerange(SliceFrom(buf, c + Len(prefix)))

\* fn next_prefix_timerange(buf, prefix) -> Option<TimeRange>
next_prefix_timerange(buf, prefix) == PrefixTimerangeAt(buf, prefix, Find(buf, prefix))

(***************************************************************************)
(* Entry parser                                                            *)
(***************************************************************************)

s_SCHEDULED == <<"S","C","H","E","D","U","L","E","D",":"," ">>
s_DEADLINE == <<"D","E","A","D","L","I","N","E",":"," ">>
s_CLOCK == <<"C","L","O","C","K",":"," ">>
s_TODO == <<"T","O","D","O"," ">>
s_DONE == <<"D","O","N","E"," ">>
s_PROPERTIES == <<":","P","R","O","P","E","R","T","I","E","S",":">>
s_END == <<":","E","N","D",":">>
s_LOGBOOK == <<":","L","O","G","B","O","O","K",":">>

\* struct TimeRange
TimeRange(s, e) == [start |-> s, end |-> e]

\* Option<NaiveDateTime>
SomeT(t) == [some |-> TRUE, t |-> t]
NoneT == [some |-> FALSE, t |-> 0]

\* struct Heading
Heading(title, level, state, tags, scheduled, deadline, logged, logged_active, timestamps) ==
    [title |-> title, level |-> level, state |-> state, tags |-> tags,
     scheduled |-> scheduled, deadline |-> deadline, logged |-> logged,
     logged_active |-> logged_active, timestamps |-> timestamps]

NoHeading == Heading(<<>>, 0, "", <<>>, NoneTR, NoneTR, <<>>, NoneT, <<>>)

\* Option<Heading>, with a panic as a third outcome
SomeH(h) == [tag |-> "Some", h |-> h]
NoneH == [tag |-> "None", h |-> NoHeading]
PanicH == [tag |-> "Panic", h |-> NoHeading]

\* for c in firstline.chars() { if c != '*' { break; } level += 1; }
RECURSIVE LeadingStars(_)
LeadingStars(s) ==
    IF Len(s) > 0 /\ s[1] = "*" THEN 1 + LeadingStars(Tail(s)) ELSE 0

\* the state keyword at the start of the text after the marker
StateOf(text) ==
    IF StartsWith(text, s_TODO) THEN "TODO"
    ELSE IF StartsWith(text, s_DONE) THEN "DONE"
    ELSE ""

\* firstline after the state keyword is cut off: what the Heading stores as title
TitleOf(text) ==
    IF StartsWith(text, s_TODO) \/ StartsWith(text, s_DONE)
    THEN SliceFrom(text, 5) ELSE text

\* firstline.split(' ').last().unwrap()
LastOf(words) == words[Len(words)]

TagsOfWord(lastword) ==
    IF StartsWith(lastword, <<":">>)
    THEN SelectSeq(Split(lastword, ":"), LAMBDA x : Len(x) > 0)
    ELSE <<>>

\* parse org tags
TagsOf(firstline) ==
    IF EndsWith(firstline, <<":">>) THEN TagsOfWord(LastOf(Split(firstline, " ")))
    ELSE <<>>

\* entry[line] with the code's 0-based line; the index panics out of bounds
InBounds(entry, line) == line < Len(entry)
LineAt(entry, line) == entry[line + 1]

\* while entry[line] != ":END:" { line += 1; }   -1: index out of bounds
RECURSIVE SkipToEnd(_, _)
SkipToEnd(entry, line) ==
    IF ~InBounds(entry, line) THEN -1
    ELSE IF LineAt(entry, line) = s_END THEN line
    ELSE SkipToEnd(entry, line + 1)

\* skip final :END:
AfterEnd(e) == IF e < 0 THEN -1 ELSE e + 1

\* parse over properties: the line after the block, -1 for a panic
SkipProperties(entry, line) ==
    IF ~InBounds(entry, line) THEN -1
    ELSE IF LineAt(entry, line) = s_PROPERTIES
    THEN AfterEnd(SkipToEnd(entry, line + 1))
    ELSE line

LogState(tag, line, logged, logged_active) ==
    [tag |-> tag, line |-> line, logged |-> logged, logged_active |-> logged_active]

RECURSIVE ScanLogbook(_, _, _, _)

\* a CLOCK line with "--": match next_prefix_timerange(..) { Some(tr) => push, None => () }
ClosedClock(entry, line, logged, logged_active, tr) ==
    IF tr.tag = "Panic" THEN LogState("Panic", line, logged, logged_active)
    ELSE IF tr.tag = "Some"
    THEN ScanLogbook(entry, line + 1, Append(logged, TimeRange(tr.start, tr.end)),
                     logged_active)
    ELSE ScanLogbook(entry, line + 1, logged, logged_active)

\* active clock!
OpenClock(entry, line, logged, logged_active, res) ==
    IF res.tag = "Panic" THEN LogState("Panic", line, logged, logged_active)
    ELSE ScanLogbook(entry, line + 1, logged, SomeT(res.start))

\* the while loop over the lines of a :LOGBOOK: block
ScanLogbook(entry, line, logged, logged_active) ==
    IF ~InBounds(entry, line) THEN LogState("Panic", line, logged, logged_active)
    ELSE IF LineAt(entry, line) = s_END
    THEN LogState("Ok", line + 1, logged, logged_active)
    ELSE IF StartsWith(LineAt(entry, line), s_CLOCK)
    THEN IF Contains(LineAt(entry, line), s_DASHES)
         THEN ClosedClock(entry, line, logged, logged_active,
                          next_prefix_timerange(LineAt(entry, line), s_CLOCK))
         ELSE OpenClock(entry, line, logged, logged_active,
                        parse_date_str(SliceFrom(LineAt(entry, line), 7)))
    ELSE ScanLogbook(entry, line + 1, logged, logged_active)

\* parse LOGBOOK
ParseLogbook(entry, line) ==
    IF InBounds(entry, line) /\ LineAt(entry, line) = s_LOGBOOK
    THEN ScanLogbook(entry, line + 1, <<>>, NoneT)
    ELSE LogState("Ok", line, <<>>, NoneT)

\* the offset after '>' found e chars after offset i + 5, -1 when there is none
StampEnd(i, e) == IF e < 0 THEN -1 ELSE i + 5 + e + 1

\* <\d{4}[^>]+> anchored at 0-based offset i: the offset after the match, -1 for none
MatchStamp(s, i) ==
    IF i + 6 <= Len(s) /\ s[i + 1] = "<"
       /\ (\A k \in 2..5 : IsDigit(s[i + k])) /\ s[i + 6] # ">"
    THEN StampEnd(i, FindAny(SliceFrom(s, i + 5), {">"}))
    ELSE -1

\* the optional group (--<\d{4}[^>]+>)? after a first stamp that ends at e1
MatchSecond(s, e1) ==
    IF e1 < 0 THEN -1
    ELSE IF StartsWith(SliceFrom(s, e1), s_DASHES) /\ MatchStamp(s, e1 + 2) >= 0
    THEN MatchStamp(s, e1 + 2)
    ELSE e1

\* (<\d{4}[^>]+>)(--<\d{4}[^>]+>)? anchored at offset i
MatchRE(s, i) == MatchSecond(s, MatchStamp(s, i))

RECURSIVE FindIter(_, _)
FindIterAt(s, from, e) ==
    IF e < 0 THEN FindIter(s, from + 1)
    ELSE <<SubSeq(s, from + 1, e)>> \o FindIter(s, e)

\* RE.find_iter(s): the matched substrings, left to right, not overlapping
FindIter(s, from) ==
    IF from >= Len(s) THEN <<>> ELSE FindIterAt(s, from, MatchRE(s, from))

\* Vec<TimeRange> being built, with a panic as the other outcome
OkTrs(trs) == [tag |-> "Ok", trs |-> trs]
PanicTrs == [tag |-> "Panic", trs |-> <<>>]

\* match parse_timerange(mat.as_str()) { Some(tr) => timestamps.push(tr), .. }
PushTr(tr, more) ==
    IF tr.tag = "Panic" \/ more.tag = "Panic" THEN PanicTrs
    ELSE OkTrs(<<TimeRange(tr.start, tr.end)>> \o more.trs)

\* the timestamps of the matches of one line
RECURSIVE ParseMatches(_)
ParseMatches(ms) ==
    IF Len(ms) = 0 THEN OkTrs(<<>>)
    ELSE PushTr(parse_timerange(ms[1]), ParseMatches(Tail(ms)))

ConcatTrs(here, more) ==
    IF here.tag = "Panic" \/ more.tag = "Panic" THEN PanicTrs
    ELSE OkTrs(here.trs \o more.trs)

\* now search for timestamps: while entry.len() > line
RECURSIVE ScanTimestamps(_, _)
ScanTimestamps(entry, line) ==
    IF ~InBounds(entry, line) THEN OkTrs(<<>>)
    ELSE ConcatTrs(ParseMatches(FindIter(LineAt(entry, line), 0)),
                   ScanTimestamps(entry, line + 1))

\* return Some(Heading { .., timestamps: timestamps })
EntryWithTimestamps(h, ts) ==
    IF ts.tag = "Panic" THEN PanicH ELSE SomeH([h EXCEPT !.timestamps = ts.trs])

\* from the end of the LOGBOOK scan on
EntryAfterLogbook(entry, h, lb) ==
    IF lb.tag = "Panic" THEN PanicH
    ELSE EntryWithTimestamps(
             [h EXCEPT !.logged = lb.logged, !.logged_active = lb.logged_active],
             ScanTimestamps(entry, lb.line))

\* from the end of the PROPERTIES skip on, line = -1 when it panicked
EntryAfterProperties(entry, h, line) ==
    IF line < 0 THEN PanicH
    ELSE EntryAfterLogbook(entry, h, ParseLogbook(entry, line))

\* skip scheduled/deadline line if there
EntryAfterPlanning(entry, h) ==
    IF h.scheduled.tag = "Panic" \/ h.deadline.tag = "Panic" THEN PanicH
    ELSE EntryAfterProperties(entry, h,
             SkipProperties(entry,
                 IF h.scheduled.tag = "Some" \/ h.deadline.tag = "Some"
                 THEN 2 ELSE 1))

\* from the parsed first line on
EntryWithTitle(entry, level, state, firstline) ==
    IF Len(entry) < 2
    THEN SomeH(Heading(firstline, level, state, TagsOf(firstline), NoneTR, NoneTR,
                       <<>>, NoneT, <<>>))
    ELSE EntryAfterPlanning(entry,
             Heading(firstline, level, state, TagsOf(firstline),
                     next_prefix_timerange(entry[2], s_SCHEDULED),
                     next_prefix_timerange(entry[2], s_DEADLINE),
                     <<>>, NoneT, <<>>))

EntryAtLevel(entry, level) ==
    IF Len(entry[1]) < level + 1 THEN NoneH
    ELSE EntryWithTitle(entry, level, StateOf(SliceFrom(entry[1], level + 1)),
                        TitleOf(SliceFrom(entry[1], level + 1)))

\* fn parse_single_org_entry(entry: Vec<String>) -> Option<Heading>
parse_single_org_entry(entry) ==
    IF Len(entry) = 0 THEN NoneH ELSE EntryAtLevel(entry, LeadingStars(entry[1]))

(***************************************************************************)
(* Classifier                                                              *)
(***************************************************************************)

ActionStates == {"TODO", "NEXT", "STARTED", "PROJECT"}

\* fn is_action(&self) -> bool
is_action(h) == h.state \in ActionStates

\* fn TimeRange::is_during(&self, ts) -> bool
is_during(tr, ts) == tr.start < ts /\ ts < tr.end

\* fn TimeRange::is_before(&self, ts) -> bool
is_before(tr, ts) == tr.start < ts /\ tr.end < ts

\* fn is_clocked_now(&self) -> bool
is_clocked_now(h) ==
    IF ~h.logged_active.some THEN FALSE ELSE h.logged_active.t < now

\* fn is_action_now(&self) -> bool
is_action_now(h) ==
    IF ~is_action(h) THEN FALSE
    ELSE IF h.scheduled.tag = "Some" THEN is_during(h.scheduled, now) ELSE FALSE

\* fn is_event_now(&self) -> bool
is_event_now(h) ==
    IF is_action(h) THEN FALSE
    ELSE IF h.scheduled.tag = "Some" THEN is_during(h.scheduled, now) ELSE FALSE

\* fn is_overdue_now(&self) -> bool
is_overdue_now(h) ==
    IF ~is_action(h) THEN FALSE
    ELSE IF h.scheduled.tag = "Some" THEN is_before(h.scheduled, now)
    ELSE IF h.deadline.tag = "Some" THEN is_before(h.deadline, now)
    ELSE FALSE

\* CategoryOf with the scheduled window tested before the clock; C1 does not hold of it
CategoryOfActionFirst(h) ==
    IF is_action_now(h) THEN "action"
    ELSE IF is_clocked_now(h) THEN "clocked"
    ELSE IF is_event_now(h) THEN "event"
    ELSE IF is_overdue_now(h) THEN "overdue"
    ELSE ""

\* the if / else if chain of main: the Vec the Heading is pushed on, "" for none
CategoryOf(h) ==
    IF is_clocked_now(h) THEN "clocked"
    ELSE IF is_action_now(h) THEN "action"
    ELSE IF is_event_now(h) THEN "event"
    ELSE IF is_overdue_now(h) THEN "overdue"
    ELSE ""

(***************************************************************************)
(* Selector                                                                *)
(***************************************************************************)

\* the for loop of most_recently_started: acc is recent_range, None at first
\* (recent_dur starts at Duration::max_value(), so the first eligible one is taken)
RECURSIVE RecentLoop(_, _, _)
RecentLoop(trs, t, acc) ==
    IF Len(trs) = 0 THEN acc
    ELSE IF t < trs[1].start THEN RecentLoop(Tail(trs), t, acc)
    ELSE IF acc.tag = "None" \/ t - trs[1].start < t - acc.start
    THEN RecentLoop(Tail(trs), t, SomeTR(trs[1].start, trs[1].end))
    ELSE RecentLoop(Tail(trs), t, acc)

\* fn most_recently_started(&self, now) -> Option<&TimeRange>
most_recently_started(h, t) ==
    IF h.scheduled.tag = "Some" THEN h.scheduled
    ELSE RecentLoop(h.timestamps, t, NoneTR)

\* LowestLoop with the comparison turned round: keeps the latest anchor
\* (C3 does not hold of it)
RECURSIVE LowestLoopLatest(_, _, _, _)
LowestLoopLatest(hs, t, k, seen) ==
    IF k > Len(hs) THEN seen
    ELSE IF most_recently_started(hs[k], t).start > most_recently_started(hs[seen], t).start
    THEN LowestLoopLatest(hs, t, k + 1, k)
    ELSE LowestLoopLatest(hs, t, k + 1, seen)

\* for pair in lowest { if pair.0.start < lowest_seen.0.start { lowest_seen = pair; } }
\* over positions k..Len(hs), with lowest_seen the position held so far
RECURSIVE LowestLoop(_, _, _, _)
LowestLoop(hs, t, k, seen) ==
    IF k > Len(hs) THEN seen
    ELSE IF most_recently_started(hs[k], t).start < most_recently_started(hs[seen], t).start
    THEN LowestLoop(hs, t, k + 1, k)
    ELSE LowestLoop(hs, t, k + 1, seen)

\* Option<&Heading> as the position of the Heading in hs
SomeRef(k) == [tag |-> "Some", k |-> k]
NoneRef == [tag |-> "None", k |-> 0]
PanicRef == [tag |-> "Panic", k |-> 0]

\* most_recent that returns the Heading that arrived first; C6 does not hold of it
most_recent_first(hs) ==
    IF Len(hs) = 0 THEN NoneRef
    ELSE IF \E k \in 1..Len(hs) : most_recently_started(hs[k], now).tag = "None"
    THEN PanicRef
    ELSE SomeRef(1)

\* fn most_recent(hs: &Vec<&Heading>) -> Option<&Heading>
most_recent(hs) ==
    IF Len(hs) = 0 THEN NoneRef
    ELSE IF \E k \in 1..Len(hs) : most_recently_started(hs[k], now).tag = "None"
    THEN PanicRef                                   \* .unwrap() on None
    ELSE SomeRef(LowestLoop(hs, now, 1, 1))

(***************************************************************************)
(* Input: the org files of the run and the instant of the run              *)
(***************************************************************************)

\* * TODO Write report
l_report ==
    <<"*"," ","T","O","D","O"," ","W","r","i","t","e"," ","r","e","p","o","r",
      "t">>

\* * TODO Call bank :phone:
l_bank ==
    <<"*"," ","T","O","D","O"," ","C","a","l","l"," ","b","a","n","k"," ",":",
      "p","h","o","n","e",":">>

\* * TODO Fix bug
l_fix ==
    <<"*"," ","T","O","D","O"," ","F","i","x"," ","b","u","g">>

\* * Standup
l_standup ==
    <<"*"," ","S","t","a","n","d","u","p">>

\* * TODO Pay rent
l_rent ==
    <<"*"," ","T","O","D","O"," ","P","a","y"," ","r","e","n","t">>

\* * TODO File taxes
l_taxes ==
    <<"*"," ","T","O","D","O"," ","F","i","l","e"," ","t","a","x","e","s">>

\* * TODO Old
l_old ==
    <<"*"," ","T","O","D","O"," ","O","l","d">>

\* * TODO Short
l_short ==
    <<"*"," ","T","O","D","O"," ","S","h","o","r","t">>

\* * TODO Bad
l_bad ==
    <<"*"," ","T","O","D","O"," ","B","a","d">>

\* * Note
l_note ==
    <<"*"," ","N","o","t","e">>

\* *
l_marker ==
    <<"*">>

\* notes
l_notes ==
    <<"n","o","t","e","s">>

\* SCHEDULED: <2024-01-01 Mon 09:00-13:00>
l_sched_0900_1300 ==
    <<"S","C","H","E","D","U","L","E","D",":"," ","<","2","0","2","4","-","0",
      "1","-","0","1"," ","M","o","n"," ","0","9",":","0","0","-","1","3",":",
      "0","0",">">>

\* SCHEDULED: <2024-01-01 Mon 11:00-13:00>
l_sched_1100_1300 ==
    <<"S","C","H","E","D","U","L","E","D",":"," ","<","2","0","2","4","-","0",
      "1","-","0","1"," ","M","o","n"," ","1","1",":","0","0","-","1","3",":",
      "0","0",">">>

\* SCHEDULED: <2024-01-01 Mon 10:00-13:00>
l_sched_1000_1300 ==
    <<"S","C","H","E","D","U","L","E","D",":"," ","<","2","0","2","4","-","0",
      "1","-","0","1"," ","M","o","n"," ","1","0",":","0","0","-","1","3",":",
      "0","0",">">>

\* SCHEDULED: <2024-01-01 Mon>
l_sched_day ==
    <<"S","C","H","E","D","U","L","E","D",":"," ","<","2","0","2","4","-","0",
      "1","-","0","1"," ","M","o","n",">">>

\* SCHEDULED: <2023-12-29 Fri>
l_sched_old ==
    <<"S","C","H","E","D","U","L","E","D",":"," ","<","2","0","2","3","-","1",
      "2","-","2","9"," ","F","r","i",">">>

\* SCHEDULED: <2024-01-01 Mon 9am>
l_sched_9am ==
    <<"S","C","H","E","D","U","L","E","D",":"," ","<","2","0","2","4","-","0",
      "1","-","0","1"," ","M","o","n"," ","9","a","m",">">>

\* DEADLINE: <2023-12-31 Sun>
l_dead_1231 ==
    <<"D","E","A","D","L","I","N","E",":"," ","<","2","0","2","3","-","1","2",
      "-","3","1"," ","S","u","n",">">>

\* DEADLINE: <2023-12-30 Sat>
l_dead_1230 ==
    <<"D","E","A","D","L","I","N","E",":"," ","<","2","0","2","3","-","1","2",
      "-","3","0"," ","S","a","t",">">>

\* see <2023-12-28 Thu> <2023-12-29 Fri> <2024-01-05 Fri>
l_loose ==
    <<"s","e","e"," ","<","2","0","2","3","-","1","2","-","2","8"," ","T","h",
      "u",">"," ","<","2","0","2","3","-","1","2","-","2","9"," ","F","r","i",
      ">"," ","<","2","0","2","4","-","0","1","-","0","5"," ","F","r","i",">">>

\* CLOCK: [2024-01-01 Mon 08:00]
l_clock_open ==
    <<"C","L","O","C","K",":"," ","[","2","0","2","4","-","0","1","-","0","1",
      " ","M","o","n"," ","0","8",":","0","0","]">>


\* heading blocks
b_report == <<l_report, l_sched_0900_1300, l_notes>>
b_bank == <<l_bank, l_sched_1100_1300, l_notes>>
b_fix == <<l_fix, l_sched_0900_1300, s_LOGBOOK, l_clock_open, s_END>>
b_standup == <<l_standup, l_sched_1000_1300, l_notes>>
b_rent == <<l_rent, l_dead_1231, l_notes>>
b_taxes == <<l_taxes, l_dead_1230, l_loose>>
b_old == <<l_old, l_sched_old, l_notes>>
b_short == <<l_short, l_sched_day>>
b_bad == <<l_bad, l_sched_9am, l_notes>>
b_note == <<l_note>>
b_marker == <<l_marker>>

\* a file of ~/org: whether fs::File::open succeeds, and its lines
OrgFile(lines) == [readable |-> TRUE, lines |-> lines]
Unreadable == [readable |-> FALSE, lines |-> <<>>]

\* the files ~/org may hold
FileCatalogue ==
    << OrgFile(b_report \o b_bank),
       OrgFile(b_fix \o b_report),
       OrgFile(b_standup \o b_rent),
       OrgFile(b_taxes \o b_old),
       OrgFile(b_bank \o b_bad),
       OrgFile(b_short \o b_note),
       OrgFile(b_marker \o b_old),
       Unreadable >>

\* the instants a run may happen at
Nows ==
    { Minute(2024, 1, 1, 9, 30), Minute(2024, 1, 1, 12, 0), Minute(2024, 1, 2, 12, 0) }

\* number of files in ~/org, one worker thread each
NumFiles == 2
Workers == 1..NumFiles

\* the directory listings: NumFiles files of the catalogue.  The threads are
\* interchangeable, so the listings are taken in catalogue order.
Listings ==
    { idx \in [Workers -> 1..Len(FileCatalogue)] :
        \A v, w \in Workers : v <= w => idx[v] <= idx[w] }

(***************************************************************************)
(* File scanner: one thread per file                                       *)
(***************************************************************************)

\* a segment of the status line: its kind and the Heading (index into all) it shows
Slot(kind, h) == [kind |-> kind, h |-> h]
EmptySlot == Slot("", 0)

SenderDropped(w) == wpc[w] \in {"done", "panicked"}

\* fs::File::open(&filename)
OpenFile(w) ==
    /\ wpc[w] = "spawned"
    /\ IF files[w].readable
       THEN /\ wpc' = [wpc EXCEPT ![w] = "scanning"]
            /\ UNCHANGED stdout
       ELSE /\ wpc' = [wpc EXCEPT ![w] = "panicked"]
            /\ stdout' = Append(stdout, Slot("failed to read", w))
    /\ UNCHANGED <<files, now, wline, rest, chan, all, mpc, ci, clocked, action,
                   event, overdue, actionstr, eventstr, arg, ret, called>>

\* if line.len() > 0 && line.starts_with("*")
StartsBlock(line) == Len(line) > 0 /\ StartsWith(line, <<"*">>)

\* match parse_single_org_entry(rest) { Some(heading) => result_send.send(heading), None => () }
\* a panic inside it unwinds the thread; otherwise the thread goes on at `next`
Emit(w, parsed, next) ==
    /\ wpc' = [wpc EXCEPT ![w] = IF parsed.tag = "Panic" THEN "panicked" ELSE next]
    /\ chan' = IF parsed.tag = "Some" THEN Append(chan, parsed.h) ELSE chan

\* one iteration of: for line in br.lines()
ReadLine(w) ==
    /\ wpc[w] = "scanning"
    /\ wline[w] < Len(files[w].lines)
    /\ IF StartsBlock(files[w].lines[wline[w] + 1]) /\ Len(rest[w]) > 0
       THEN /\ Emit(w, parse_single_org_entry(rest[w]), "scanning")
            /\ rest' = [rest EXCEPT ![w] =
                           IF wpc'[w] = "panicked" THEN rest[w]
                           ELSE <<files[w].lines[wline[w] + 1]>>]
       ELSE /\ rest' = [rest EXCEPT ![w] =
                           Append(rest[w], files[w].lines[wline[w] + 1])]
            /\ UNCHANGED <<wpc, chan>>
    /\ wline' = [wline EXCEPT ![w] =
                    IF wpc'[w] = "panicked" THEN wline[w] ELSE wline[w] + 1]
    /\ UNCHANGED <<files, now, all, mpc, ci, clocked, action, event, overdue,
                   actionstr, eventstr, stdout, arg, ret, called>>

\* after the loop: if rest.len() > 0 { ... }, then the thread ends
EndOfFile(w) ==
    /\ wpc[w] = "scanning"
    /\ wline[w] = Len(files[w].lines)
    /\ IF Len(rest[w]) > 0
       THEN Emit(w, parse_single_org_entry(rest[w]), "done")
       ELSE wpc' = [wpc EXCEPT ![w] = "done"] /\ UNCHANGED chan
    /\ UNCHANGED <<files, now, wline, rest, all, mpc, ci, clocked, action, event,
                   overdue, actionstr, eventstr, stdout, arg, ret, called>>

(***************************************************************************)
(* main                                                                    *)
(***************************************************************************)

\* for message in result_recv { all.push(message); }
Recv ==
    /\ mpc = "recv"
    /\ Len(chan) > 0
    /\ all' = Append(all, Head(chan))
    /\ chan' = Tail(chan)
    /\ UNCHANGED <<files, now, wpc, wline, rest, mpc, ci, clocked, action, event,
                   overdue, actionstr, eventstr, stdout, arg, ret, called>>

\* the receiving loop ends when every Sender is dropped and the channel is empty
RecvEnd ==
    /\ mpc = "recv"
    /\ Len(chan) = 0
    /\ \A w \in Workers : SenderDropped(w)
    /\ mpc' = "classify"
    /\ UNCHANGED <<files, now, wpc, wline, rest, chan, all, ci, clocked, action,
                   event, overdue, actionstr, eventstr, stdout, arg, ret, called>>

\* clocked.push(&message) / action.push(..) / event.push(..) / overdue.push(..)
PushOn(i, cat) ==
    /\ clocked' = IF cat = "clocked" THEN Append(clocked, i) ELSE clocked
    /\ action' = IF cat = "action" THEN Append(action, i) ELSE action
    /\ event' = IF cat = "event" THEN Append(event, i) ELSE event
    /\ overdue' = IF cat = "overdue" THEN Append(overdue, i) ELSE overdue

\* one iteration of: for message in &all { if ... else if ... }
Classify ==
    /\ mpc = "classify"
    /\ ci < Len(all)
    /\ PushOn(ci + 1, CategoryOf(all[ci + 1]))
    /\ ci' = ci + 1
    /\ UNCHANGED <<files, now, wpc, wline, rest, chan, all, mpc, actionstr,
                   eventstr, stdout, arg, ret, called>>

\* print!("^tw()")
PrintOpen ==
    /\ mpc = "classify"
    /\ ci = Len(all)
    /\ stdout' = Append(stdout, Slot("^tw()", 0))
    /\ mpc' = "headline"
    /\ UNCHANGED <<files, now, wpc, wline, rest, chan, all, ci, clocked, action,
                   event, overdue, actionstr, eventstr, arg, ret, called>>

\* the Headings a Vec<&Heading> refers to
Deref(refs) == [k \in 1..Len(refs) |-> all[refs[k]]]

\* match most_recent(..) { Some(h) => str += &h.print_..(), None => () }
SlotOfPick(kind, refs, r) ==
    IF r.tag = "Panic" THEN Slot("panic", 0)
    ELSE IF r.tag = "Some" THEN Slot(kind, refs[r.k]) ELSE EmptySlot

\* HeadlineOf that shows a clocked Heading whenever there is one, not only when
\* there is exactly one; C2 does not hold of it
HeadlineOfAnyClocked(cl, ac, ov) ==
    IF Len(cl) >= 1 THEN Slot("clocked", cl[1])
    ELSE IF Len(ac) > 0 THEN SlotOfPick("action", ac, most_recent(Deref(ac)))
    ELSE IF Len(ov) > 0 THEN SlotOfPick("overdue", ov, most_recent(Deref(ov)))
    ELSE EmptySlot

\* the value of actionstr after: if clocked.len() == 1 {..} else if .. else if ..
\* kind "panic" when most_recent panics
HeadlineOf(cl, ac, ov) ==
    IF Len(cl) = 1 THEN Slot("clocked", cl[1])
    ELSE IF Len(ac) > 0 THEN SlotOfPick("action", ac, most_recent(Deref(ac)))
    ELSE IF Len(ov) > 0 THEN SlotOfPick("overdue", ov, most_recent(Deref(ov)))
    ELSE EmptySlot

\* the value of eventstr after: if event.len() > 0 { match most_recent(&event) ..}
EventOf(ev) ==
    IF Len(ev) > 0 THEN SlotOfPick("event", ev, most_recent(Deref(ev)))
    ELSE EmptySlot

\* main goes on at `next` unless the slot's most_recent panicked
SetSlot(s, next) == mpc' = IF s.kind = "panic" THEN "panicked" ELSE next

\* let mut actionstr = String::new(); if clocked.len() == 1 { ... }
Headline ==
    /\ mpc = "headline"
    /\ SetSlot(HeadlineOf(clocked, action, overdue), "event")
    /\ actionstr' = IF mpc' = "panicked" THEN actionstr
                    ELSE HeadlineOf(clocked, action, overdue)
    /\ UNCHANGED <<files, now, wpc, wline, rest, chan, all, ci, clocked, action,
                   event, overdue, eventstr, stdout, arg, ret, called>>

\* let mut eventstr = String::new(); if event.len() > 0 { ... }
Event ==
    /\ mpc = "event"
    /\ SetSlot(EventOf(event), "print")
    /\ eventstr' = IF mpc' = "panicked" THEN eventstr ELSE EventOf(event)
    /\ UNCHANGED <<files, now, wpc, wline, rest, chan, all, ci, clocked, action,
                   event, overdue, actionstr, stdout, arg, ret, called>>

\* if actionstr.len() > 0 { print!.. } print!("{}", eventstr); println!("^cs()");
\* the loops after it build strings and drop them; main returns
PrintLine ==
    /\ mpc = "print"
    /\ stdout' = stdout
                 \o (IF actionstr.kind # "" THEN <<actionstr>> ELSE <<>>)
                 \o (IF eventstr.kind # "" THEN <<eventstr>> ELSE <<>>)
                 \o <<Slot("^cs()", 0)>>
    /\ mpc' = "exit"
    /\ UNCHANGED <<files, now, wpc, wline, rest, chan, all, ci, clocked, action,
                   event, overdue, actionstr, eventstr, arg, ret, called>>

Init ==
    /\ files \in {[w \in Workers |-> FileCatalogue[idx[w]]] : idx \in Listings}
    /\ now \in Nows
    /\ wpc = [w \in Workers |-> "spawned"]
    /\ wline = [w \in Workers |-> 0]
    /\ rest = [w \in Workers |-> <<>>]
    /\ chan = <<>>
    /\ all = <<>>
    /\ mpc = "recv"
    /\ ci = 0
    /\ clocked = <<>>
    /\ action = <<>>
    /\ event = <<>>
    /\ overdue = <<>>
    /\ actionstr = EmptySlot
    /\ eventstr = EmptySlot
    /\ stdout = <<>>
    /\ arg = <<>>
    /\ ret = <<>>
    /\ called = FALSE

Next ==
    \/ \E w \in Workers : OpenFile(w)
    \/ \E w \in Workers : ReadLine(w)
    \/ \E w \in Workers : EndOfFile(w)
    \/ Recv
    \/ RecvEnd
    \/ Classify
    \/ PrintOpen
    \/ Headline
    \/ Event
    \/ PrintLine

Spec == Init /\ [][Next]_vars

(***************************************************************************)
(* Properties of a run                                                     *)
(***************************************************************************)

\* whether a Vec<&Heading> holds the reference i, and how often
Holds(refs, i) == \E k \in 1..Len(refs) : refs[k] = i
Occurrences(refs, i) == Cardinality({k \in 1..Len(refs) : refs[k] = i})

\* the four predicates as the design states them
ClockedCase(h) == h.logged_active.some /\ h.logged_active.t < now
InWindow(h) ==
    h.scheduled.tag = "Some" /\ h.scheduled.start < now /\ now < h.scheduled.end
ActiveActionCase(h) == h.state \in ActionStates /\ InWindow(h)
ActiveEventCase(h) == h.state \notin ActionStates /\ InWindow(h)
OverdueCase(h) ==
    /\ h.state \in ActionStates
    /\ \/ /\ h.scheduled.tag = "Some"
          /\ h.scheduled.start < now /\ h.scheduled.end < now
       \/ /\ h.scheduled.tag # "Some" /\ h.deadline.tag = "Some"
          /\ h.deadline.start < now /\ h.deadline.end < now

\* C1: every classified Heading is in at most one of the four categories, the
\* one of the first predicate it matches in the order Clocked, ActiveAction,
\* ActiveEvent, Overdue (in none if it matches none); a Heading with an open
\* clock started before now and a scheduled window containing now is Clocked
\* and not ActiveAction.
C1_FirstMatchOnly ==
    \A i \in 1..ci :
        /\ Occurrences(clocked, i) + Occurrences(action, i)
             + Occurrences(event, i) + Occurrences(overdue, i) <= 1
        /\ Holds(clocked, i) <=> ClockedCase(all[i])
        /\ Holds(action, i) <=> (~ClockedCase(all[i]) /\ ActiveActionCase(all[i]))
        /\ Holds(event, i) <=>
              (/\ ~ClockedCase(all[i]) /\ ~ActiveActionCase(all[i])
               /\ ActiveEventCase(all[i]))
        /\ Holds(overdue, i) <=>
              (/\ ~ClockedCase(all[i]) /\ ~ActiveActionCase(all[i])
               /\ ~ActiveEventCase(all[i]) /\ OverdueCase(all[i]))
        /\ (ClockedCase(all[i]) /\ InWindow(all[i]))
              => (Holds(clocked, i) /\ ~Holds(action, i))

\* a TODO Heading with an open clock and a matching scheduled window has been
\* classified, and is Clocked
C1_Witness ==
    \E i \in 1..ci :
        /\ ClockedCase(all[i]) /\ ActiveActionCase(all[i])
        /\ Holds(clocked, i)

\* the anchor of a Heading: the start of scheduled if present, otherwise the
\* greatest start <= now among the loose timestamps; -1 when it has none
LooseStarts(h) ==
    {s \in {h.timestamps[k].start : k \in 1..Len(h.timestamps)} : s <= now}
Anchor(h) ==
    IF h.scheduled.tag = "Some" THEN h.scheduled.start
    ELSE IF LooseStarts(h) = {} THEN -1
    ELSE CHOOSE s \in LooseStarts(h) : \A u \in LooseStarts(h) : u <= s

Anchorless(h) == Anchor(h) = -1

\* the reference, among refs, with the earliest anchor, the first of them in
\* list order
EarliestFirst(refs) ==
    refs[CHOOSE p \in 1..Len(refs) :
            \A q \in 1..Len(refs) :
                \/ Anchor(all[refs[p]]) < Anchor(all[refs[q]])
                \/ Anchor(all[refs[p]]) = Anchor(all[refs[q]]) /\ p <= q]

HeadlineSet == mpc \in {"event", "print", "exit"}
EventSet == mpc \in {"print", "exit"}

\* C2: once the headline slot is set it holds: the clocked display of the one
\* Clocked Heading if there is exactly one; otherwise the Selector's pick among
\* the ActiveAction Headings if there are any; otherwise the Selector's pick
\* among the Overdue Headings if there are any; otherwise nothing.  With zero
\* or several Clocked Headings the clocked display is not used.
C2_HeadlineSource ==
    HeadlineSet =>
        /\ actionstr =
              IF Len(clocked) = 1 THEN Slot("clocked", clocked[1])
              ELSE IF Len(action) > 0 THEN Slot("action", EarliestFirst(action))
              ELSE IF Len(overdue) > 0 THEN Slot("overdue", EarliestFirst(overdue))
              ELSE EmptySlot
        /\ (Len(clocked) # 1) => (actionstr.kind # "clocked")
        /\ (mpc = "exit" /\ actionstr.kind # "") =>
              (\E k \in 1..Len(stdout) : stdout[k] = actionstr)

\* a run with two Clocked Headings has printed a headline taken from the
\* ActiveAction Headings
C2_Witness ==
    /\ mpc = "exit"
    /\ Len(clocked) >= 2
    /\ actionstr.kind = "action"

\* what the Selector returned for refs: it has an earliest anchor, and no
\* reference before it in the list has the same anchor
IsEarliestFirst(refs, i) ==
    \E p \in 1..Len(refs) :
        /\ refs[p] = i
        /\ \A q \in 1..Len(refs) : Anchor(all[i]) <= Anchor(all[refs[q]])
        /\ \A q \in 1..(p - 1) : Anchor(all[i]) < Anchor(all[refs[q]])

\* C3: on a non-empty list of Headings of one category that all have an
\* anchor, the Selector returns the Heading with the earliest anchor start, and
\* among those sharing it the first in list order (all three uses of the
\* Selector: ActiveAction, Overdue, ActiveEvent).
C3_EarliestAnchor ==
    /\ (HeadlineSet /\ Len(clocked) # 1 /\ Len(action) > 0)
          => (actionstr.kind = "action" /\ IsEarliestFirst(action, actionstr.h))
    /\ (/\ HeadlineSet /\ Len(clocked) # 1 /\ Len(action) = 0 /\ Len(overdue) > 0
        /\ \A k \in 1..Len(overdue) : ~Anchorless(all[overdue[k]]))
          => (actionstr.kind = "overdue" /\ IsEarliestFirst(overdue, actionstr.h))
    /\ (EventSet /\ Len(event) > 0)
          => (eventstr.kind = "event" /\ IsEarliestFirst(event, eventstr.h))

\* now = 12:00; the 11:00 Heading arrived before the 09:00 Heading, both are
\* ActiveAction, and the Selector returned the 09:00 one
C3_Witness ==
    /\ HeadlineSet /\ now = Minute(2024, 1, 1, 12, 0)
    /\ actionstr.kind = "action"
    /\ all[actionstr.h].scheduled.start = Minute(2024, 1, 1, 9, 0)
    /\ \E k \in 1..Len(action) :
          /\ action[k] < actionstr.h
          /\ all[action[k]].scheduled.start = Minute(2024, 1, 1, 11, 0)

Panicked(w) == wpc[w] = "panicked"

\* C4: if a worker hit a fatal error, main does not go on to classify what it
\* received and prints no status line.
C4_AllOrNothing ==
    (\E w \in Workers : Panicked(w)) =>
        mpc \notin {"classify", "headline", "event", "print", "exit"}

\* the headline Selector was run on the Overdue Headings
OverdueSelected ==
    /\ mpc \in {"event", "print", "exit", "panicked"}
    /\ Len(clocked) # 1 /\ Len(action) = 0 /\ Len(overdue) > 0

\* the references of refs whose Heading has an anchor
Anchored(refs) == SelectSeq(refs, LAMBDA i : ~Anchorless(all[i]))

\* C5: when the Selector is run on Overdue Headings of which one has neither a
\* scheduled interval nor a loose timestamp started by now, that Heading is
\* skipped: the run does not crash and the headline is the pick among the
\* others (nothing if there are none).
C5_AnchorlessSkipped ==
    (OverdueSelected /\ \E k \in 1..Len(overdue) : Anchorless(all[overdue[k]]))
    => /\ mpc # "panicked"
       /\ actionstr =
             IF Len(Anchored(overdue)) = 0 THEN EmptySlot
             ELSE Slot("overdue", EarliestFirst(Anchored(overdue)))

\* what a worker running alone sends for the lines from the k-th on, with blk
\* the block accumulated and sent what it has sent so far
RECURSIVE SentFrom(_, _, _, _)
SentFrom(lines, k, blk, sent) ==
    LET parsed == parse_single_org_entry(blk)
        more == IF parsed.tag = "Some" THEN Append(sent, parsed.h) ELSE sent
    IN  IF k > Len(lines)
        THEN IF Len(blk) > 0 THEN more ELSE sent
        ELSE IF StartsBlock(lines[k]) /\ Len(blk) > 0
        THEN IF parsed.tag = "Panic" THEN sent
             ELSE SentFrom(lines, k + 1, <<lines[k]>>, more)
        ELSE SentFrom(lines, k + 1, Append(blk, lines[k]), sent)

SentBy(file) == IF file.readable THEN SentFrom(file.lines, 1, <<>>, <<>>) ELSE <<>>

\* the Headings of the run, file after file
RECURSIVE SentByFiles(_)
SentByFiles(n) == IF n = 0 THEN <<>> ELSE SentByFiles(n - 1) \o SentBy(files[n])
Emitted == SentByFiles(NumFiles)

Range(s) == {s[k] : k \in 1..Len(s)}
Count(s, x) == Cardinality({k \in 1..Len(s) : s[k] = x})
SameBag(s, u) == \A x \in Range(s) \cup Range(u) : Count(s, x) = Count(u, x)

\* the category the design gives a Heading
CaseOf(h) ==
    IF ClockedCase(h) THEN "clocked"
    ELSE IF ActiveActionCase(h) THEN "action"
    ELSE IF ActiveEventCase(h) THEN "event"
    ELSE IF OverdueCase(h) THEN "overdue"
    ELSE ""

Categories == {"clocked", "action", "event", "overdue"}

\* the Headings of each category, from the Headings em of the files alone
Members(em) == [cat \in Categories |-> SelectSeq(em, LAMBDA h : CaseOf(h) = cat)]

\* the references main holds for a category
RefsOf(cat) ==
    CASE cat = "clocked" -> clocked
      [] cat = "action" -> action
      [] cat = "event" -> event
      [] cat = "overdue" -> overdue

NoTies(hs) ==
    \A p, q \in 1..Len(hs) : p # q => Anchor(hs[p]) # Anchor(hs[q])

\* the Heading of hs with the earliest anchor
Earliest(hs) == CHOOSE h \in Range(hs) : \A g \in Range(hs) : Anchor(h) <= Anchor(g)

\* the category the headline is taken from, "" for none
HeadlineCategory(mem) ==
    IF Len(mem["clocked"]) = 1 THEN "clocked"
    ELSE IF Len(mem["action"]) > 0 THEN "action"
    ELSE IF Len(mem["overdue"]) > 0 THEN "overdue"
    ELSE ""

\* the run agrees with the Headings em of the files, their categories mem and
\* the headline's category hc
AgreesWith(em, mem, hc) ==
    /\ SameBag(all, em)
    /\ (mpc # "classify") =>
          \A cat \in Categories : SameBag(Deref(RefsOf(cat)), mem[cat])
    /\ (mpc = "panicked") =>
          (hc = "overdue" /\ \E h \in Range(mem["overdue"]) : Anchorless(h))
    /\ (HeadlineSet /\ hc = "") => actionstr = EmptySlot
    /\ (HeadlineSet /\ hc # "" /\ NoTies(mem[hc])) =>
          (actionstr.kind = hc /\ all[actionstr.h] = Earliest(mem[hc]))
    /\ (EventSet /\ Len(mem["event"]) = 0) => eventstr = EmptySlot
    /\ (EventSet /\ Len(mem["event"]) > 0 /\ NoTies(mem["event"])) =>
          (eventstr.kind = "event" /\ all[eventstr.h] = Earliest(mem["event"]))

\* C6: whatever the interleaving of the workers, the run ends with the same
\* category partition of the Headings of the files, and, when no two candidates
\* of the category used have the same anchor start, with the same headline and
\* the same event pick: all are functions of the files and of now alone.
C6_OrderIndependent ==
    (mpc # "recv") =>
        LET em == Emitted
            mem == Members(em)
        IN  AgreesWith(em, mem, HeadlineCategory(mem))

\* a run whose Headings arrived in another order than file after file has
\* picked its headline among three Overdue Headings with different anchors
C6_Witness ==
    /\ mpc = "exit"
    /\ all # Emitted
    /\ actionstr.kind = "overdue"
    /\ Len(overdue) >= 3
    /\ NoTies(Deref(overdue))

MalformedStamps == {l_sched_9am}
HasMalformedStamp(file) ==
    \E k \in 1..Len(file.lines) : file.lines[k] \in MalformedStamps

\* C10: a worker whose file can be read and holds only well-formed timestamps
\* never dies: every block is parsed to a Heading or to none and the scan goes
\* on with the following blocks.
C10_OnlyMalformedFatal ==
    \A w \in Workers :
        (files[w].readable /\ ~HasMalformedStamp(files[w])) => ~Panicked(w)

(***************************************************************************)
(* The Timestamp Parser on single stamps                                   *)
(***************************************************************************)

\* 2024-01-01
c_20240101 ==
    <<"2","0","2","4","-","0","1","-","0","1">>

\* 2024-02-29
c_20240229 ==
    <<"2","0","2","4","-","0","2","-","2","9">>

\* 2023-12-31
c_20231231 ==
    <<"2","0","2","3","-","1","2","-","3","1">>

\* Mon
c_Mon ==
    <<"M","o","n">>

\* Thu
c_Thu ==
    <<"T","h","u">>

\* Sun
c_Sun ==
    <<"S","u","n">>

\* 09:00
c_0900 ==
    <<"0","9",":","0","0">>

\* 10:30
c_1030 ==
    <<"1","0",":","3","0">>

\* 23:59
c_2359 ==
    <<"2","3",":","5","9">>

\* +1w
c_plus1w ==
    <<"+","1","w">>

\* -2d
c_minus2d ==
    <<"-","2","d">>

\* .+1d
c_dotplus1d ==
    <<".","+","1","d">>

StampDates ==
    { [txt |-> c_20240101, dow |-> c_Mon, y |-> 2024, m |-> 1, d |-> 1],
      [txt |-> c_20240229, dow |-> c_Thu, y |-> 2024, m |-> 2, d |-> 29],
      [txt |-> c_20231231, dow |-> c_Sun, y |-> 2023, m |-> 12, d |-> 31] }

StampTimes ==
    { [txt |-> c_0900, hh |-> 9, mm |-> 0],
      [txt |-> c_1030, hh |-> 10, mm |-> 30],
      [txt |-> c_2359, hh |-> 23, mm |-> 59] }

\* no time, HH:MM, or HH:MM-HH:MM
StampTimeTokens ==
    {<<>>} \cup {<<a>> : a \in StampTimes}
           \cup {<<a, b>> : a, b \in StampTimes}

StampRepeaters == {<<>>, c_plus1w, c_minus2d, c_dotplus1d}
StampBrackets == {<< <<>>, <<>> >>, << <<"<">>, <<">">> >>, << <<"[">>, <<"]">> >>}

\* a stamp YYYY-MM-DD [DayName] [HH:MM[-HH:MM]] [repeater], by its parts
StampInputs ==
    [date : StampDates, dow : BOOLEAN, time : StampTimeTokens,
     rep : StampRepeaters, br : StampBrackets]

\* the text of a stamp
Word(w) == IF Len(w) = 0 THEN <<>> ELSE <<" ">> \o w
TimeText(tm) ==
    IF Len(tm) = 0 THEN <<>>
    ELSE IF Len(tm) = 1 THEN tm[1].txt
    ELSE tm[1].txt \o <<"-">> \o tm[2].txt
StampText(a) ==
    a.br[1] \o a.date.txt \o (IF a.dow THEN Word(a.date.dow) ELSE <<>>)
            \o Word(TimeText(a.time)) \o Word(a.rep) \o a.br[2]

InitStamp ==
    /\ arg \in StampInputs
    /\ ret = NoneTR
    /\ called = FALSE
    /\ files = <<>> /\ now = 0 /\ wpc = <<>> /\ wline = <<>> /\ rest = <<>>
    /\ chan = <<>> /\ all = <<>> /\ mpc = "" /\ ci = 0
    /\ clocked = <<>> /\ action = <<>> /\ event = <<>> /\ overdue = <<>>
    /\ actionstr = EmptySlot /\ eventstr = EmptySlot /\ stdout = <<>>

\* parse_date_str applied to the text of the stamp
ApplyStamp ==
    /\ ~called
    /\ called' = TRUE
    /\ ret' = parse_date_str(StampText(arg))
    /\ UNCHANGED <<arg, files, now, wpc, wline, rest, chan, all, mpc, ci, clocked,
                   action, event, overdue, actionstr, eventstr, stdout>>

SpecStamp == InitStamp /\ [][ApplyStamp]_vars

\* the intervals of the grammar
FullDayOf(date) ==
    SomeTR(Minute(date.y, date.m, date.d, 0, 0),
           Minute(date.y, date.m, date.d, 0, 0) + MinutesPerDay)
AtTime(date, tm) == Minute(date.y, date.m, date.d, tm.hh, tm.mm)
GrammarInterval(a) ==
    IF Len(a.time) = 0 THEN FullDayOf(a.date)
    ELSE IF Len(a.time) = 1
    THEN SomeTR(AtTime(a.date, a.time[1]), AtTime(a.date, a.time[1]))
    ELSE SomeTR(AtTime(a.date, a.time[1]), AtTime(a.date, a.time[2]))

\* C7 as stated: a stamp parses to the interval of the grammar whether or not
\* the day name is present: full day without a time token (or with a repeater
\* in its place), start = end for HH:MM, the two times for HH:MM-HH:MM.
C7_AsStated == called => ret = GrammarInterval(arg)

\* C7 amended: with the day name present the stamp parses to the interval of
\* the grammar; without it the token after the date is not read as a time and
\* the stamp parses to the full-day interval.
C7_DayNameNeeded ==
    called => ret = IF arg.dow THEN GrammarInterval(arg) ELSE FullDayOf(arg.date)

\* 2024-01-01 Mon 09:00-10:30 has been parsed to 09:00 .. 10:30 of that day
C7_Witness ==
    /\ called
    /\ arg.dow /\ Len(arg.time) = 2 /\ arg.rep = <<>>
    /\ ret = SomeTR(Minute(2024, 1, 1, 9, 0), Minute(2024, 1, 1, 10, 30))

(***************************************************************************)
(* The Entry Parser on heading blocks                                      *)
(***************************************************************************)

\* * TODO Buy milk :home:errand:
h_milk_tags ==
    <<"*"," ","T","O","D","O"," ","B","u","y"," ","m","i","l","k"," ",":","h",
      "o","m","e",":","e","r","r","a","n","d",":">>

\* * Buy milk
h_milk ==
    <<"*"," ","B","u","y"," ","m","i","l","k">>

\* ** DONE Call bank :phone:
h_bank_tags ==
    <<"*","*"," ","D","O","N","E"," ","C","a","l","l"," ","b","a","n","k"," ",
      ":","p","h","o","n","e",":">>

\* * TODO Write report
h_report ==
    <<"*"," ","T","O","D","O"," ","W","r","i","t","e"," ","r","e","p","o","r",
      "t">>

\* Buy milk
t_milk ==
    <<"B","u","y"," ","m","i","l","k">>

\* Call bank
t_bank ==
    <<"C","a","l","l"," ","b","a","n","k">>

\* Write report
t_report ==
    <<"W","r","i","t","e"," ","r","e","p","o","r","t">>

\* home
g_home ==
    <<"h","o","m","e">>

\* errand
g_errand ==
    <<"e","r","r","a","n","d">>

\* phone
g_phone ==
    <<"p","h","o","n","e">>

\* CLOCK: [2024-01-01 Mon 09:00]--[2024-01-01 Mon 10:00] =>  1:00
k_closed_a ==
    <<"C","L","O","C","K",":"," ","[","2","0","2","4","-","0","1","-","0","1",
      " ","M","o","n"," ","0","9",":","0","0","]","-","-","[","2","0","2","4",
      "-","0","1","-","0","1"," ","M","o","n"," ","1","0",":","0","0","]"," ",
      "=",">"," "," ","1",":","0","0">>

\* CLOCK: [2024-01-01 Mon 13:00]--[2024-01-02 Tue 00:30] => 11:30
k_closed_b ==
    <<"C","L","O","C","K",":"," ","[","2","0","2","4","-","0","1","-","0","1",
      " ","M","o","n"," ","1","3",":","0","0","]","-","-","[","2","0","2","4",
      "-","0","1","-","0","2"," ","T","u","e"," ","0","0",":","3","0","]"," ",
      "=",">"," ","1","1",":","3","0">>

\* CLOCK: [2024-01-02 Tue 08:00]
k_open_a ==
    <<"C","L","O","C","K",":"," ","[","2","0","2","4","-","0","1","-","0","2",
      " ","T","u","e"," ","0","8",":","0","0","]">>

\* CLOCK: [2024-01-03 Wed 07:15]
k_open_b ==
    <<"C","L","O","C","K",":"," ","[","2","0","2","4","-","0","1","-","0","3",
      " ","W","e","d"," ","0","7",":","1","5","]">>

\* heading lines, with the title and the tags the design gives them
EntryHeads ==
    { [txt |-> h_milk_tags, title |-> t_milk, tags |-> {g_home, g_errand}],
      [txt |-> h_milk, title |-> t_milk, tags |-> {}],
      [txt |-> h_bank_tags, title |-> t_bank, tags |-> {g_phone}],
      [txt |-> h_report, title |-> t_report, tags |-> {}] }

\* CLOCK lines, with the times of their stamps
EntryClocks ==
    { [txt |-> k_closed_a, closed |-> TRUE,
       start |-> Minute(2024, 1, 1, 9, 0), end |-> Minute(2024, 1, 1, 10, 0)],
      [txt |-> k_closed_b, closed |-> TRUE,
       start |-> Minute(2024, 1, 1, 13, 0), end |-> Minute(2024, 1, 2, 0, 30)],
      [txt |-> k_open_a, closed |-> FALSE,
       start |-> Minute(2024, 1, 2, 8, 0), end |-> 0],
      [txt |-> k_open_b, closed |-> FALSE,
       start |-> Minute(2024, 1, 3, 7, 15), end |-> 0] }

\* number of CLOCK lines of a :LOGBOOK: block
MaxClocks == 2

ClockSeqs == UNION {[1..n -> EntryClocks] : n \in 0..MaxClocks}

\* a block: heading line, SCHEDULED line or not, a :LOGBOOK: block, a body line
EntryInputs == [head : EntryHeads, plan : BOOLEAN, clocks : ClockSeqs]

EntryLines(a) ==
    <<a.head.txt>> \o (IF a.plan THEN <<l_sched_0900_1300>> ELSE <<>>)
        \o <<s_LOGBOOK>> \o [k \in 1..Len(a.clocks) |-> a.clocks[k].txt]
        \o <<s_END, l_notes>>

InitEntry ==
    /\ arg \in EntryInputs
    /\ ret = NoneH
    /\ called = FALSE
    /\ files = <<>> /\ now = 0 /\ wpc = <<>> /\ wline = <<>> /\ rest = <<>>
    /\ chan = <<>> /\ all = <<>> /\ mpc = "" /\ ci = 0
    /\ clocked = <<>> /\ action = <<>> /\ event = <<>> /\ overdue = <<>>
    /\ actionstr = EmptySlot /\ eventstr = EmptySlot /\ stdout = <<>>

\* parse_single_org_entry applied to the lines of the block
ApplyEntry ==
    /\ ~called
    /\ called' = TRUE
    /\ ret' = parse_single_org_entry(EntryLines(arg))
    /\ UNCHANGED <<arg, files, now, wpc, wline, rest, chan, all, mpc, ci, clocked,
                   action, event, overdue, actionstr, eventstr, stdout>>

SpecEntry == InitEntry /\ [][ApplyEntry]_vars

\* the closed CLOCK lines as intervals, in file order
ClosedIntervals(clocks) ==
    LET closed == SelectSeq(clocks, LAMBDA c : c.closed)
    IN  [k \in 1..Len(closed) |-> TimeRange(closed[k].start, closed[k].end)]

\* the start of the last open CLOCK line
LastOpen(clocks) ==
    LET open == SelectSeq(clocks, LAMBDA c : ~c.closed)
    IN  IF Len(open) = 0 THEN NoneT ELSE SomeT(open[Len(open)].start)

\* C8: every CLOCK line with "--" appends to logged, in file order, the
\* interval from its left stamp's time to its right stamp's time; every CLOCK
\* line without "--" sets active_log_start (the last one wins) and appends
\* nothing.
C8_LogbookSplit ==
    called =>
        /\ ret.tag = "Some"
        /\ ret.h.logged = ClosedIntervals(arg.clocks)
        /\ ret.h.logged_active = LastOpen(arg.clocks)

\* C9: the trailing :tag: word of the title text gives the tags and is
\* stripped from the title; a title without it has no tags and is unchanged.
C9_TagsStripped ==
    called =>
        /\ ret.tag = "Some"
        /\ ret.h.title = arg.head.title
        /\ Range(ret.h.tags) = arg.head.tags

====
